---------------------------- MODULE Spec2Model ----------------------------
(***************************************************************************)
(* pyQCD: the ensemble data set (pyQCD/core/dataset.py, class DataSet) and *)
(* the two-point function library (pyQCD/core/twopoint.py).                *)
(*                                                                         *)
(* A DataSet is a zip archive of members plus three fields of the object   *)
(* (datatype, num_data, jackknifes_cached) and the jackknife cache files   *)
(* in the directory pyQCDcache.  The archive is what zipfile reads of it:  *)
(* the member of each name.  zipfile in mode 'a' appends a member even     *)
(* when one of that name exists, and a lookup by name (ZipFile.NameToInfo) *)
(* finds the member written last; the members written before it under the *)
(* same name stay in the file and are never read again.                    *)
(*                                                                         *)
(* A datum is an object of the user's data type: [type, val], val an exact *)
(* rational <<numerator, denominator>>.  A standard deviation is recorded  *)
(* by its square (the value under the final square root).                  *)
(***************************************************************************)
EXTENDS Integers, Sequences, FiniteSets, TLC

VARIABLES
    num_data,           \* DataSet.num_data
    archive,            \* the members of the zip file DataSet.filename
    jackknifes_cached,  \* DataSet.jackknifes_cached
    cache,              \* the files of the directory pyQCDcache
    last,               \* the last call on the data set and what it returned
    corr                \* the last call of the two-point library and its result

vars == <<num_data, archive, jackknifes_cached, cache, last, corr>>

store == <<num_data, archive, jackknifes_cached, cache>>

---------------------------------------------------------------------------
(* Bounds of the model *)

MaxData == 4         \* num_data
MaxResampled == 2    \* num_data, when the resampling calls are made
MaxBinsize == 2      \* bin sizes 0..MaxBinsize are tried
MaxL == 3            \* spatial extents 1..MaxL of the propagators
MaxMomentum == 1     \* momentum components -MaxMomentum..MaxMomentum
MaxT == 4            \* time slices 1..MaxT of the correlators
MaxKeys == 2         \* entries of the dictionaries passed to filter_correlators
MaxItems == 2        \* items of the lists, tuples and dicts of a measurement
MaxShared == 3       \* num_data of the stores that share the cache directory

DatumVals == {1, 2}                  \* values of the data added
Types == {"T", "U"}                  \* run-time types of the objects passed in
Indices == 0 .. MaxData              \* indices passed to the calls
Binsizes == 0 .. MaxBinsize
Funcs == {"sq", "none"}              \* measurement functions
DatumFuncs == {"id", "double"}       \* functions passed to apply_function
BootstrapCounts == {0, 1}            \* num_bootstraps
Extents == 1 .. MaxL                 \* propagator1.shape[1]
Momenta == [1 .. 3 -> -MaxMomentum .. MaxMomentum]

---------------------------------------------------------------------------
(* F(v), with v evaluated once: a bound variable holds a value, where a    *)
(* LET definition or an operator's argument is evaluated again at each use *)

With(v, F(_)) == CHOOSE r \in {F(x) : x \in {v}} : TRUE

---------------------------------------------------------------------------
(* Exact arithmetic of the measurements *)

Abs(x) == IF x < 0 THEN -x ELSE x

RECURSIVE GCD(_, _)
GCD(a, b) ==
    With(<<a, b>>, LAMBDA p : IF p[2] = 0 THEN p[1] ELSE GCD(p[2], p[1] % p[2]))

Rat(n, d) ==
    With(<<n, d>>, LAMBDA p :
    With(GCD(Abs(p[1]), Abs(p[2])), LAMBDA g :
        IF p[2] < 0 THEN <<(-p[1]) \div g, (-p[2]) \div g>>
        ELSE <<p[1] \div g, p[2] \div g>>))

Zero == <<0, 1>>

RatAdd(a, b) ==
    With(<<a, b>>, LAMBDA p :
        Rat(p[1][1] * p[2][2] + p[2][1] * p[1][2], p[1][2] * p[2][2]))

RatSub(a, b) ==
    With(<<a, b>>, LAMBDA p :
        Rat(p[1][1] * p[2][2] - p[2][1] * p[1][2], p[1][2] * p[2][2]))

RatMul(a, b) ==
    With(<<a, b>>, LAMBDA p : Rat(p[1][1] * p[2][1], p[1][2] * p[2][2]))

\* a / k for an integer k # 0
RatDivInt(a, k) == With(a, LAMBDA x : Rat(x[1], x[2] * k))

\* a / b for a rational b # 0
RatDiv(a, b) ==
    With(<<a, b>>, LAMBDA p : Rat(p[1][1] * p[2][2], p[1][2] * p[2][1]))

---------------------------------------------------------------------------
(* Results of a call: the exception raised, or "ok" and the value *)

Ok(v) == [status |-> "ok", value |-> v]

Raise(e) == [status |-> e, value |-> Zero]

---------------------------------------------------------------------------
(* The data type and its objects *)

datatype == "T"

Obj(t, v) == [type |-> t, val |-> v]

\* the objects passed in: of the data type, and one of another type
Datum == {Obj(datatype, Rat(v, 1)) : v \in DatumVals}
             \cup {Obj(t, Rat(1, 1)) : t \in Types \ {datatype}}

\* datum.save(name) writes the object's value to the file name.npz;
\* datatype.load(file) builds an object of the data type from the file.
save(datum) == [npz |-> datum.val]

load(file) == Obj(datatype, file.npz)

---------------------------------------------------------------------------
(* The zip archive *)

TypeMember == [base |-> "type", idx |-> 0]

\* "{}{}.npz".format(self.datatype.__name__, index)
MemberName(index) == [base |-> datatype, idx |-> index]

\* zfile.write(name) in mode 'a': the member read under that name from now on
ZipWrite(arch, name, file) ==
    [x \in DOMAIN arch \cup {name} |-> IF x = name THEN file ELSE arch[x]]

\* zfile.namelist(), as a set
ZipNames(arch) == DOMAIN arch

\* zfile.extract(name)
ZipExtract(arch, name) == arch[name]

---------------------------------------------------------------------------
(* Arithmetic of the objects of the data type (+, -, ** 2, / by a number) *)

ObjAdd(a, b) == Obj(datatype, RatAdd(a.val, b.val))

ObjSub(a, b) == Obj(datatype, RatSub(a.val, b.val))

ObjSqr(a) == With(a, LAMBDA x : Obj(datatype, RatMul(x.val, x.val)))

ObjDivInt(a, k) == Obj(datatype, RatDivInt(a.val, k))

---------------------------------------------------------------------------
(* DataSet: reading *)

\* get_datum(index): no check against num_data; the archive raises KeyError
\* for a name it does not hold.
get_datum(arch, index) ==
    IF MemberName(index) \in ZipNames(arch)
    THEN Ok(load(ZipExtract(arch, MemberName(index))))
    ELSE Raise("KeyError")

\* acc += self.get_datum(i) for i in xrange(first, stop)
RECURSIVE add_data(_, _, _, _)
add_data(acc, arch, first, stop) ==
    With(acc, LAMBDA sum :
        IF sum.status # "ok" \/ first >= stop THEN sum
        ELSE With(get_datum(arch, first), LAMBDA d :
                 IF d.status # "ok" THEN Raise(d.status)
                 ELSE add_data(Ok(ObjAdd(sum.value, d.value)), arch,
                               first + 1, stop)))

\* num_bins with one more bin whatever the remainder: a variant the
\* properties of the resampling calls must tell from NumBins
NumBinsOneMore(n, binsize) == (n \div binsize) + 1

\* num_bins = num_data / binsize, one more when there is a remainder
NumBins(n, binsize) ==
    (n \div binsize) + (IF n % binsize > 0 THEN 1 ELSE 0)

\* _get_bin(binsize, binnum): the sum of the data of the bin over binsize
_get_bin(arch, n, binsize, binnum) ==
    LET first_datum == binsize * binnum + 1
        upper == binsize * (binnum + 1)
        last_datum == IF upper > n THEN n ELSE upper
    IN  With(add_data(get_datum(arch, binsize * binnum), arch,
                      first_datum, last_datum),
             LAMBDA out : IF out.status # "ok" THEN out
                          ELSE Ok(ObjDivInt(out.value, binsize)))

\* acc += self._get_bin(binsize, i) for i in xrange(first, stop)
RECURSIVE add_bins(_, _, _, _, _, _)
add_bins(acc, arch, n, binsize, first, stop) ==
    With(acc, LAMBDA sum :
        IF sum.status # "ok" \/ first >= stop THEN sum
        ELSE With(_get_bin(arch, n, binsize, first), LAMBDA b :
                 IF b.status # "ok" THEN Raise(b.status)
                 ELSE add_bins(Ok(ObjAdd(sum.value, b.value)), arch, n,
                               binsize, first + 1, stop)))

\* data_sum = self._get_bin(binsize, 0), then += the bins 1 .. num_bins - 1
bin_sum(arch, n, binsize) ==
    add_bins(_get_bin(arch, n, binsize, 0), arch, n, binsize, 1,
             NumBins(n, binsize))

\* (data_sum - self._get_bin(binsize, binnum)) / (num_bins - 1)
leave_out(data_sum, arch, n, binsize, binnum) ==
    With(_get_bin(arch, n, binsize, binnum), LAMBDA b :
        IF b.status # "ok" THEN Raise(b.status)
        ELSE IF NumBins(n, binsize) - 1 = 0 THEN Raise("ZeroDivisionError")
        ELSE Ok(ObjDivInt(ObjSub(data_sum, b.value), NumBins(n, binsize) - 1)))

\* data_sum of statistics(): get_datum(0), then += get_datum(i) for every i
statistics_sum(arch, n) == add_data(get_datum(arch, 0), arch, 0, n)

\* acc += (self.get_datum(i) - data_mean)**2 for i in xrange(first, stop)
RECURSIVE add_squares(_, _, _, _, _)
add_squares(acc, arch, mean, first, stop) ==
    With(acc, LAMBDA sum :
        IF sum.status # "ok" \/ first >= stop THEN sum
        ELSE With(get_datum(arch, first), LAMBDA d :
                 IF d.status # "ok" THEN Raise(d.status)
                 ELSE add_squares(
                          Ok(ObjAdd(sum.value, ObjSqr(ObjSub(d.value, mean)))),
                          arch, mean, first + 1, stop)))

\* data_std of statistics(): (get_datum(0) - data_mean)**2, then += the
\* square for every i, then /= num_data
statistics_std(arch, n, data_mean) ==
    With(add_squares(Ok(ObjSqr(ObjSub(get_datum(arch, 0).value, data_mean))),
                     arch, data_mean, 0, n),
         LAMBDA data_std :
             IF data_std.status # "ok" THEN Raise(data_std.status)
             ELSE Ok([mean |-> data_mean,
                      std2 |-> ObjDivInt(data_std.value, n)]))

\* statistics(): (data_mean, data_std ** 0.5); std2 is data_std before the root
statistics(arch, n) ==
    With(statistics_sum(arch, n), LAMBDA data_sum :
        IF data_sum.status # "ok" THEN Raise(data_sum.status)
        ELSE IF n = 0 THEN Raise("ZeroDivisionError")
        ELSE With(ObjDivInt(data_sum.value, n), LAMBDA data_mean :
                 statistics_std(arch, n, data_mean)))

\* jackknife_datum(index, binsize)
jackknife_datum(arch, n, index, binsize) ==
    IF binsize < 1 THEN Raise("ValueError")
    ELSE IF index >= n THEN Raise("ValueError")
    ELSE With(bin_sum(arch, n, binsize), LAMBDA data_sum :
             IF data_sum.status # "ok" THEN Raise(data_sum.status)
             ELSE leave_out(data_sum.value, arch, n, binsize, index))

---------------------------------------------------------------------------
(* Measurement functions and the statistics of a list of measurements *)

None == <<>>

\* func(datum, *args) of bootstrap and jackknife: a number, or None
measure_with(func, datum) ==
    CASE func = "sq" -> RatMul(datum.val, datum.val)
      [] func = "none" -> None

\* func(datum, *args) of apply_function: an object of the data type
apply_to(func, datum) ==
    CASE func = "id" -> datum
      [] func = "double" -> Obj(datum.type, RatAdd(datum.val, datum.val))

\* if measurement != None: out.append(measurement)
collect(out, measurement) ==
    With(measurement, LAMBDA m : IF m # None THEN Append(out, m) ELSE out)

\* data[0], then + data[k] for the others, up to data[last]
RECURSIVE SumSeq(_, _)
SumSeq(data, k) ==
    IF k = 1 THEN data[1] ELSE RatAdd(SumSeq(data, k - 1), data[k])

\* _mean(data): data[0] raises IndexError for an empty list
_mean(data) ==
    With(data, LAMBDA d :
        IF Len(d) = 0 THEN Raise("IndexError")
        ELSE Ok(RatDivInt(SumSeq(d, Len(d)), Len(d))))

\* the sum of (datum - mean) * (datum - mean) over data
SquareSum(data, mean) ==
    With(<<data, mean>>, LAMBDA p :
        SumSeq([k \in 1 .. Len(p[1]) |->
                   With(RatSub(p[1][k], p[2]), LAMBDA diff : RatMul(diff, diff))],
               Len(p[1])))

\* _std(data), before the square root
_std(data) ==
    With(<<data, _mean(data)>>, LAMBDA p :
        IF p[2].status # "ok" THEN p[2]
        ELSE Ok(RatDivInt(SquareSum(p[1], p[2].value), Len(p[1]))))

\* _std_jackknife(data), before the square root:
\* div = float(len(data)) / (len(data) - 1)
_std_jackknife(data) ==
    With(<<data, _mean(data)>>, LAMBDA p :
        IF p[2].status # "ok" THEN p[2]
        ELSE IF Len(p[1]) - 1 = 0 THEN Raise("ZeroDivisionError")
        ELSE Ok(RatDiv(SquareSum(p[1], p[2].value),
                       Rat(Len(p[1]), Len(p[1]) - 1))))

\* return DataSet._mean(out), DataSet._std(out): the mean is computed first
mean_and(out, std) ==
    With(_mean(out), LAMBDA m :
        IF m.status # "ok" THEN Raise(m.status)
        ELSE With(std, LAMBDA s :
                 IF s.status # "ok" THEN Raise(s.status)
                 ELSE Ok([mean |-> m.value, std2 |-> s.value])))

---------------------------------------------------------------------------
(* DataSet.bootstrap *)

\* new_datum += self._get_bin(binsize, b) for b in bins[k:]
RECURSIVE add_drawn(_, _, _, _, _, _)
add_drawn(acc, arch, n, binsize, bins, k) ==
    With(acc, LAMBDA sum :
        IF sum.status # "ok" \/ k > Len(bins) THEN sum
        ELSE With(_get_bin(arch, n, binsize, bins[k]), LAMBDA b :
                 IF b.status # "ok" THEN Raise(b.status)
                 ELSE add_drawn(Ok(ObjAdd(sum.value, b.value)), arch, n,
                                binsize, bins, k + 1)))

\* one pass of the loop for the bins drawn: the mean of the bins, measured
bootstrap_sample(arch, n, func, binsize, bins) ==
    With(add_drawn(_get_bin(arch, n, binsize, bins[1]), arch, n, binsize,
                   bins, 2),
         LAMBDA total :
             IF total.status # "ok" THEN Raise(total.status)
             ELSE Ok(measure_with(func, ObjDivInt(total.value, Len(bins)))))

\* the bins npr.randint(num_bins, size = num_bins) can return
Draws(num_bins) == [1 .. num_bins -> 0 .. num_bins - 1]

\* for i in xrange(num_bootstraps): randint raises ValueError for no bins
RECURSIVE bootstrap_loop(_, _, _, _, _, _, _, _)
bootstrap_loop(out, arch, n, func, num_bootstraps, binsize, draws, i) ==
    With(out, LAMBDA o :
        IF o.status # "ok" \/ i > num_bootstraps THEN o
        ELSE IF NumBins(n, binsize) < 1 THEN Raise("ValueError")
        ELSE With(bootstrap_sample(arch, n, func, binsize, draws[i]), LAMBDA m :
                 IF m.status # "ok" THEN Raise(m.status)
                 ELSE bootstrap_loop(Ok(collect(o.value, m.value)), arch, n,
                                     func, num_bootstraps, binsize, draws,
                                     i + 1)))

\* bootstrap(func, num_bootstraps, binsize); draws[i] are the bins drawn in
\* pass i
bootstrap(arch, n, func, num_bootstraps, binsize, draws) ==
    IF binsize < 1 THEN Raise("ValueError")
    ELSE With(bootstrap_loop(Ok(<<>>), arch, n, func, num_bootstraps, binsize,
                             draws, 1),
              LAMBDA out :
                  IF out.status # "ok" THEN Raise(out.status)
                  ELSE mean_and(out.value, _std(out.value)))

---------------------------------------------------------------------------
(* The jackknife cache *)

\* "pyQCDcache/{}_jackknife_binsize{}_{}.npz".format(name, binsize, i)
jackknife_filename(binsize, i) ==
    [base |-> datatype, binsize |-> binsize, binnum |-> i]

\* new_datum.save(filename): the file is created or overwritten
save_file(files, name, datum) ==
    With(<<files, save(datum)>>, LAMBDA p :
        [x \in DOMAIN p[1] \cup {name} |-> IF x = name THEN p[2] ELSE p[1][x]])

\* what a call leaves of the cache and its flag, and what it returns
Outcome(result, files, cached) ==
    [result |-> result, files |-> files, cached |-> cached]

\* for i in xrange(num_bins): new_datum.save(jackknife_filename)
RECURSIVE save_jackknifes(_, _, _, _, _, _)
save_jackknifes(acc, data_sum, arch, n, binsize, i) ==
    With(acc, LAMBDA o :
        IF o.result.status # "ok" \/ i >= NumBins(n, binsize) THEN o
        ELSE With(leave_out(data_sum, arch, n, binsize, i), LAMBDA new_datum :
                 IF new_datum.status # "ok"
                 THEN Outcome(Raise(new_datum.status), o.files, o.cached)
                 ELSE save_jackknifes(
                          Outcome(o.result,
                                  save_file(o.files,
                                            jackknife_filename(binsize, i),
                                            new_datum.value),
                                  o.cached),
                          data_sum, arch, n, binsize, i + 1)))

\* generate_jackknife_cache(binsize)
generate_jackknife_cache(arch, n, files, cached, binsize) ==
    IF binsize < 1 THEN Outcome(Raise("ValueError"), files, cached)
    ELSE With(bin_sum(arch, n, binsize), LAMBDA data_sum :
             IF data_sum.status # "ok"
             THEN Outcome(Raise(data_sum.status), files, cached)
             ELSE With(save_jackknifes(Outcome(Ok(None), files, cached),
                                       data_sum.value, arch, n, binsize, 0),
                       LAMBDA done :
                           IF done.result.status # "ok" THEN done
                           ELSE Outcome(Ok(None), done.files, TRUE)))

\* the loop of jackknife over the cache files
RECURSIVE cached_measurements(_, _, _, _, _, _)
cached_measurements(out, files, func, binsize, i, num_bins) ==
    With(out, LAMBDA o :
        IF o.status # "ok" \/ i >= num_bins THEN o
        ELSE IF jackknife_filename(binsize, i) \notin DOMAIN files
        THEN Raise("IOError")
        ELSE cached_measurements(
                 Ok(collect(o.value,
                            measure_with(func,
                                load(files[jackknife_filename(binsize, i)])))),
                 files, func, binsize, i + 1, num_bins))

\* the loop of jackknife without the cache
RECURSIVE fresh_measurements(_, _, _, _, _, _, _)
fresh_measurements(out, data_sum, arch, n, func, binsize, i) ==
    With(out, LAMBDA o :
        IF o.status # "ok" \/ i >= NumBins(n, binsize) THEN o
        ELSE With(leave_out(data_sum, arch, n, binsize, i), LAMBDA new_datum :
                 IF new_datum.status # "ok" THEN Raise(new_datum.status)
                 ELSE fresh_measurements(
                          Ok(collect(o.value,
                                     measure_with(func, new_datum.value))),
                          data_sum, arch, n, func, binsize, i + 1)))

\* return DataSet._mean(out), DataSet._std_jackknife(out), for the cache and
\* the flag the call leaves
jackknife_result(out, files, cached) ==
    With(out, LAMBDA o :
        IF o.status # "ok" THEN Outcome(Raise(o.status), files, cached)
        ELSE Outcome(mean_and(o.value, _std_jackknife(o.value)), files, cached))

\* the variant that generates the cache of the bin size at every call that
\* uses the cache, whatever jackknifes_cached is
jackknife_regenerating(arch, n, files, cached, func, binsize, use_cache) ==
    IF binsize < 1 THEN Outcome(Raise("ValueError"), files, cached)
    ELSE IF use_cache
    THEN With(generate_jackknife_cache(arch, n, files, cached, binsize),
              LAMBDA gen :
                  IF gen.result.status # "ok" THEN gen
                  ELSE jackknife_result(
                           cached_measurements(Ok(<<>>), gen.files, func,
                                               binsize, 0, NumBins(n, binsize)),
                           gen.files, gen.cached))
    ELSE With(bin_sum(arch, n, binsize), LAMBDA data_sum :
             IF data_sum.status # "ok"
             THEN Outcome(Raise(data_sum.status), files, cached)
             ELSE jackknife_result(
                      fresh_measurements(Ok(<<>>), data_sum.value, arch, n,
                                         func, binsize, 0),
                      files, cached))

\* the variant that never reads the cache: it resamples the archive whatever
\* use_cache is
jackknife_fresh(arch, n, files, cached, func, binsize, use_cache) ==
    IF binsize < 1 THEN Outcome(Raise("ValueError"), files, cached)
    ELSE With(bin_sum(arch, n, binsize), LAMBDA data_sum :
             IF data_sum.status # "ok"
             THEN Outcome(Raise(data_sum.status), files, cached)
             ELSE jackknife_result(
                      fresh_measurements(Ok(<<>>), data_sum.value, arch, n,
                                         func, binsize, 0),
                      files, cached))

\* jackknife(func, binsize, args, use_cache)
jackknife(arch, n, files, cached, func, binsize, use_cache) ==
    IF binsize < 1 THEN Outcome(Raise("ValueError"), files, cached)
    ELSE IF use_cache
    THEN With(IF ~cached
              THEN generate_jackknife_cache(arch, n, files, cached, binsize)
              ELSE Outcome(Ok(None), files, cached),
              LAMBDA gen :
                  IF gen.result.status # "ok" THEN gen
                  ELSE jackknife_result(
                           cached_measurements(Ok(<<>>), gen.files, func,
                                               binsize, 0, NumBins(n, binsize)),
                           gen.files, gen.cached))
    ELSE With(bin_sum(arch, n, binsize), LAMBDA data_sum :
             IF data_sum.status # "ok"
             THEN Outcome(Raise(data_sum.status), files, cached)
             ELSE jackknife_result(
                      fresh_measurements(Ok(<<>>), data_sum.value, arch, n,
                                         func, binsize, 0),
                      files, cached))

---------------------------------------------------------------------------
(* DataSet: writing *)

\* what a writing call leaves of the archive and the count, and its status
Written(status, arch, n) == [status |-> status, arch |-> arch, n |-> n]

\* add_datum saving under the name of the index after num_data: a variant
\* the properties of add_datum must tell from it
add_datum_after(arch, n, datum) ==
    IF datum.type # datatype THEN Written("TypeError", arch, n)
    ELSE Written("ok", ZipWrite(arch, MemberName(n + 1), save(datum)), n + 1)

\* add_datum(datum)
add_datum(arch, n, datum) ==
    IF datum.type # datatype THEN Written("TypeError", arch, n)
    ELSE Written("ok", ZipWrite(arch, MemberName(n), save(datum)), n + 1)

\* set_datum building the file name from index, and set_datum checking the
\* index after it has written: variants the properties of set_datum must
\* tell from it
set_datum_at_index(arch, n, index, datum) ==
    IF datum.type # datatype THEN Written("TypeError", arch, n)
    ELSE IF index >= n THEN Written("TypeError", arch, n)
    ELSE Written("ok", ZipWrite(arch, MemberName(index), save(datum)), n)

set_datum_late_check(arch, n, index, datum) ==
    IF datum.type # datatype THEN Written("TypeError", arch, n)
    ELSE IF index >= n
    THEN Written("TypeError", ZipWrite(arch, MemberName(n), save(datum)), n)
    ELSE Written("ok", ZipWrite(arch, MemberName(n), save(datum)), n)

\* set_datum(index, datum): the file name is built from self.num_data
set_datum(arch, n, index, datum) ==
    IF datum.type # datatype THEN Written("TypeError", arch, n)
    ELSE IF index >= n THEN Written("TypeError", arch, n)
    ELSE Written("ok", ZipWrite(arch, MemberName(n), save(datum)), n)

\* apply_function(func, args): for i in xrange(self.num_data)
RECURSIVE apply_function(_, _, _, _)
apply_function(arch, n, func, i) ==
    IF i >= n THEN Written("ok", arch, n)
    ELSE With(get_datum(arch, i), LAMBDA datum :
             IF datum.status # "ok" THEN Written(datum.status, arch, n)
             ELSE With(set_datum(arch, n, i, apply_to(func, datum.value)),
                       LAMBDA w : IF w.status # "ok" THEN w
                                  ELSE apply_function(w.arch, n, func, i + 1)))

---------------------------------------------------------------------------
(* The calls on the data set *)

Call(op, args, status, value) ==
    [op |-> op, args |-> args, status |-> status, value |-> value]

Returned(op, args, result) == Call(op, args, result.status, result.value)

Init ==
    /\ num_data = 0
    /\ archive = [x \in {TypeMember} |-> [pickle |-> datatype]]
    /\ jackknifes_cached = FALSE
    /\ cache = <<>>
    /\ last = Call("__init__", <<>>, "ok", None)
    /\ corr = Call("import", <<>>, "ok", None)

AddDatum(datum) ==
    \E w \in {add_datum(archive, num_data, datum)} :
        /\ w.n <= MaxData
        /\ archive' = w.arch
        /\ num_data' = w.n
        /\ last' = Call("add_datum", [datum |-> datum], w.status, None)
        /\ UNCHANGED <<jackknifes_cached, cache, corr>>

SetDatum(index, datum) ==
    \E w \in {set_datum(archive, num_data, index, datum)} :
        /\ archive' = w.arch
        /\ num_data' = w.n
        /\ last' = Call("set_datum", [index |-> index, datum |-> datum],
                        w.status, None)
        /\ UNCHANGED <<jackknifes_cached, cache, corr>>

ApplyFunction(func) ==
    \E w \in {apply_function(archive, num_data, func, 0)} :
        /\ archive' = w.arch
        /\ num_data' = w.n
        /\ last' = Call("apply_function", [func |-> func], w.status, None)
        /\ UNCHANGED <<jackknifes_cached, cache, corr>>

GetDatum(index) ==
    /\ last' = Returned("get_datum", [index |-> index],
                        get_datum(archive, index))
    /\ UNCHANGED <<store, corr>>

\* __getitem__(index): return self.get_datum(index)
GetItem(index) ==
    /\ last' = Returned("__getitem__", [index |-> index],
                        get_datum(archive, index))
    /\ UNCHANGED <<store, corr>>

Statistics ==
    /\ last' = Returned("statistics", <<>>, statistics(archive, num_data))
    /\ UNCHANGED <<store, corr>>

JackknifeDatum(index, binsize) ==
    /\ last' = Returned("jackknife_datum",
                        [index |-> index, binsize |-> binsize],
                        jackknife_datum(archive, num_data, index, binsize))
    /\ UNCHANGED <<store, corr>>

Bootstrap(func, num_bootstraps, binsize) ==
    \E draws \in [1 .. num_bootstraps ->
                     Draws(IF binsize < 1 THEN 0
                           ELSE NumBins(num_data, binsize))] :
        /\ last' = Returned("bootstrap",
                            [func |-> func, num_bootstraps |-> num_bootstraps,
                             binsize |-> binsize],
                            bootstrap(archive, num_data, func, num_bootstraps,
                                      binsize, draws))
        /\ UNCHANGED <<store, corr>>

GenerateJackknifeCache(binsize) ==
    \E o \in {generate_jackknife_cache(archive, num_data, cache,
                                      jackknifes_cached, binsize)} :
        /\ cache' = o.files
        /\ jackknifes_cached' = o.cached
        /\ last' = Returned("generate_jackknife_cache", [binsize |-> binsize],
                            o.result)
        /\ UNCHANGED <<num_data, archive, corr>>

Jackknife(func, binsize, use_cache) ==
    \E o \in {jackknife(archive, num_data, cache, jackknifes_cached, func,
                       binsize, use_cache)} :
        /\ cache' = o.files
        /\ jackknifes_cached' = o.cached
        /\ last' = Returned("jackknife",
                            [func |-> func, binsize |-> binsize,
                             use_cache |-> use_cache],
                            o.result)
        /\ UNCHANGED <<num_data, archive, corr>>

StoreNext ==
    \/ \E datum \in Datum : AddDatum(datum)
    \/ \E index \in Indices, datum \in Datum : SetDatum(index, datum)
    \/ \E func \in DatumFuncs : ApplyFunction(func)
    \/ \E index \in Indices : GetDatum(index)
    \/ \E index \in Indices : GetItem(index)
    \/ Statistics
    \/ \E index \in Indices, binsize \in Binsizes : JackknifeDatum(index, binsize)

\* The data set without the resampling calls
Spec == Init /\ [][StoreNext]_vars

\* DataSet.load(filename) of the archive: the data type is unpickled from
\* the member type, and num_data is taken from the names of the members that
\* start with the name of the data type; a new DataSet has num_data = 0
DataSet_load(arch) ==
    LET loaded == ZipExtract(arch, TypeMember).pickle
        data == {name.idx : name \in {x \in ZipNames(arch) : x.base = loaded}}
    IN  Ok([datatype |-> loaded,
            num_data |-> IF Cardinality(data) > 0
                         THEN (CHOOSE m \in data : \A i \in data : i <= m) + 1
                         ELSE 0])

Load ==
    /\ last' = Returned("load", <<>>, DataSet_load(archive))
    /\ UNCHANGED <<store, corr>>

LoadNext ==
    \/ \E datum \in Datum : AddDatum(datum)
    \/ \E index \in Indices, datum \in Datum : SetDatum(index, datum)
    \/ Load

\* The data set built by add_datum and set_datum, and loaded
SpecLoad == Init /\ [][LoadNext]_vars

\* A second store of the same data type in the same working directory: its
\* archive is another file, its cache files are pyQCDcache's.  The archive of
\* the store after add_datum of the first k values of its ensemble:
RECURSIVE peer_archive(_, _)
peer_archive(ensemble, k) ==
    IF k = 0 THEN [x \in {TypeMember} |-> [pickle |-> datatype]]
    ELSE add_datum(peer_archive(ensemble, k - 1), k - 1,
                   Obj(datatype, Rat(ensemble[k], 1))).arch

\* generate_jackknife_cache(binsize) of the second store, which has not
\* generated before: the flag it sets is its own
PeerGenerate(ensemble, binsize) ==
    \E o \in {generate_jackknife_cache(peer_archive(ensemble, Len(ensemble)),
                                      Len(ensemble), cache, FALSE, binsize)} :
        /\ cache' = o.files
        /\ last' = Returned("peer.generate_jackknife_cache",
                            [ensemble |-> ensemble, binsize |-> binsize],
                            o.result)
        /\ UNCHANGED <<num_data, archive, jackknifes_cached, corr>>

\* the ensembles of the second store: 2, 3, ... where the first store holds
\* equal data of value 1, so that every average tells its store and its bin
PeerEnsembles == {[k \in 1 .. n |-> k + 1] : n \in 1 .. MaxShared}

SharedBinsizes == {1, 2}

\* the data of the first store
OwnData == {Obj(datatype, Rat(1, 1))}

SharedNext ==
    \/ \E datum \in OwnData : AddDatum(datum) /\ num_data' <= MaxShared
    \/ \E binsize \in SharedBinsizes : GenerateJackknifeCache(binsize)
    \/ \E binsize \in SharedBinsizes, use_cache \in BOOLEAN :
          Jackknife("sq", binsize, use_cache)
    \/ \E ensemble \in PeerEnsembles, binsize \in SharedBinsizes :
          PeerGenerate(ensemble, binsize)

\* Two stores of one data type that share the cache directory
SpecShared == Init /\ [][SharedNext]_vars

CacheNext ==
    \/ \E datum \in Datum : AddDatum(datum) /\ num_data' <= MaxShared
    \/ \E binsize \in Binsizes : GenerateJackknifeCache(binsize)
    \/ \E func \in Funcs, binsize \in Binsizes, use_cache \in BOOLEAN :
          Jackknife(func, binsize, use_cache)

\* One store and its cache: add_datum, generate_jackknife_cache, jackknife
SpecCache == Init /\ [][CacheNext]_vars

\* The calls that validate their arguments, on a smaller archive of equal
\* data: the calls that resample, and the calls that add data
Small == num_data' <= MaxResampled

SmallIndices == 0 .. MaxResampled

\* one object of the data type and one of another type
EqualData == {datum \in Datum : datum.val = Rat(1, 1)}

ResampleNext ==
    \/ \E datum \in EqualData : AddDatum(datum) /\ Small
    \/ \E index \in SmallIndices, datum \in EqualData :
          SetDatum(index, datum) /\ Small
    \/ \E index \in SmallIndices, binsize \in Binsizes :
          JackknifeDatum(index, binsize)
    \/ \E func \in Funcs, num_bootstraps \in BootstrapCounts,
          binsize \in Binsizes : Bootstrap(func, num_bootstraps, binsize)
    \/ \E binsize \in Binsizes : GenerateJackknifeCache(binsize)
    \/ \E func \in Funcs, binsize \in Binsizes, use_cache \in BOOLEAN :
          Jackknife(func, binsize, use_cache)

SpecResample == Init /\ [][ResampleNext]_vars

\* bootstrap on an archive of any data
BootstrapNext ==
    \/ \E datum \in Datum : AddDatum(datum) /\ Small
    \/ \E index \in SmallIndices, datum \in Datum :
          SetDatum(index, datum) /\ Small
    \/ \E func \in Funcs, num_bootstraps \in BootstrapCounts,
          binsize \in Binsizes : Bootstrap(func, num_bootstraps, binsize)

SpecBootstrap == Init /\ [][BootstrapNext]_vars

---------------------------------------------------------------------------
(* The two-point library: compute_meson_corr for one momentum.  The      *)
(* momentum-space correlator np.fft.fftn(spatial_correlator) is kept by   *)
(* the place it is read at: MomCorrelator(m) is mom_correlator[:, m[1],   *)
(* m[2], m[3]], a correlator over the time slices.                        *)

MomCorrelator(m) == [at |-> m]

\* np.mean(equiv_correlators, axis = 0) of the correlators at the momenta
Mean(momenta) == [mean |-> [k \in DOMAIN momenta |-> MomCorrelator(momenta[k])]]

\* range(-L // 2, L // 2) has L members; the k-th triple of the three loops
Candidate(L, k) ==
    LET lo == (-L) \div 2
    IN  <<lo + (k \div (L * L)), lo + ((k \div L) % L), lo + (k % L)>>

Norm2(p) == p[1] * p[1] + p[2] * p[2] + p[3] * p[3]

\* _get_all_momenta(p, L, T), in the order of the list comprehension
_get_all_momenta(p, L) ==
    LET all == [k \in 1 .. L * L * L |-> Candidate(L, k - 1)]
        same == SelectSeq(all, LAMBDA q : Norm2(q) = Norm2(p))
    IN  [k \in DOMAIN same |-> <<same[k][1] % L, same[k][2] % L, same[k][3] % L>>]

\* the branch average_momenta: equiv_momenta[:, 0] of an empty array raises
\* IndexError
averaged(momentum, L) ==
    LET equiv_momenta == _get_all_momenta(momentum, L)
    IN  IF Len(equiv_momenta) = 0 THEN Raise("IndexError")
        ELSE Ok(Mean(equiv_momenta))

\* the other branch: momentum = tuple([i % self.L for i in momentum]) in a
\* function of the module, where no name self is bound; of no component,
\* momentum[0] is out of range
selected(momentum, L) ==
    IF Len(momentum) = 0 THEN Raise("IndexError")
    ELSE Raise("NameError")

\* compute_meson_corr(..., momenta = momentum, average_momenta, fold) for
\* propagators of spatial extent L: out has one key, its value is returned.
\* No statement of the function reads fold.
compute_meson_corr(L, momentum, average_momenta, fold) ==
    IF average_momenta THEN averaged(momentum, L) ELSE selected(momentum, L)

\* compute_meson_corr256: the first statement reads the local name
\* interpolators in the comprehension that is to be assigned to it, so it
\* raises UnboundLocalError before any correlator is computed
compute_meson_corr256(L, momentum, average_momenta, fold) ==
    Raise("UnboundLocalError")

\* the propagators of a call, by the momentum-space correlator they give
Props == {"flat", "decay"}

ComputeMesonCorr(prop, L, momentum, average_momenta, fold) ==
    /\ corr' = Returned("compute_meson_corr",
                        [prop |-> prop, L |-> L, momenta |-> momentum,
                         average_momenta |-> average_momenta, fold |-> fold],
                        compute_meson_corr(L, momentum, average_momenta, fold))
    /\ UNCHANGED <<store, last>>

ComputeMesonCorr256(prop, L, momentum, average_momenta, fold) ==
    /\ corr' = Returned("compute_meson_corr256",
                        [prop |-> prop, L |-> L, momenta |-> momentum,
                         average_momenta |-> average_momenta, fold |-> fold],
                        compute_meson_corr256(L, momentum, average_momenta,
                                              fold))
    /\ UNCHANGED <<store, last>>

CorrNext ==
    \E prop \in Props, L \in Extents, momentum \in Momenta,
       average_momenta \in BOOLEAN, fold \in BOOLEAN :
        \/ ComputeMesonCorr(prop, L, momentum, average_momenta, fold)
        \/ ComputeMesonCorr256(prop, L, momentum, average_momenta, fold)

SpecCorr == Init /\ [][CorrNext]_vars

---------------------------------------------------------------------------
(* fold_correlator on a correlator of Len(correlator) time slices: entry  *)
(* t + 1 of the sequence is correlator[t].                                *)

sign(x) == IF x[1] > 0 THEN 1 ELSE IF x[1] < 0 THEN -1 ELSE 0

\* correlator[:0:-1]: from the last entry down to correlator[1]
Backwards(correlator) ==
    [j \in 1 .. Len(correlator) - 1 |-> correlator[Len(correlator) + 1 - j]]

\* np.append(correlator[0], rest)
append(first, rest) == <<first>> \o rest

\* the variant that folds every correlator as a symmetric one
fold_correlator_symmetric(correlator) ==
    IF Len(correlator) < 2 THEN Raise("IndexError")
    ELSE LET back == Backwards(correlator)
             rest == Tail(correlator)
         IN  Ok(append(correlator[1],
                       [j \in DOMAIN rest |->
                           RatDivInt(RatAdd(back[j], rest[j]), 2)]))

\* correlator[1] of a correlator of fewer than two slices raises IndexError
fold_correlator(correlator) ==
    IF Len(correlator) < 2 THEN Raise("IndexError")
    ELSE LET back == Backwards(correlator)
             rest == Tail(correlator)
         IN  IF sign(correlator[2]) = sign(correlator[Len(correlator)])
             THEN Ok(append(correlator[1],
                            [j \in DOMAIN rest |->
                                RatDivInt(RatAdd(back[j], rest[j]), 2)]))
             ELSE Ok(append(correlator[1],
                            [j \in DOMAIN rest |->
                                RatDivInt(RatSub(rest[j], back[j]), 2)]))

SliceVals == {Rat(x, 1) : x \in -1 .. 2}
Correlators == UNION {[1 .. T -> SliceVals] : T \in 1 .. MaxT}

\* a call that has been made and has not returned yet
Pending(op, args) == Call(op, args, "pending", None)

InitStore ==
    /\ num_data = 0
    /\ archive = [x \in {TypeMember} |-> [pickle |-> datatype]]
    /\ jackknifes_cached = FALSE
    /\ cache = <<>>
    /\ last = Call("__init__", <<>>, "ok", None)

InitFold ==
    /\ InitStore
    /\ \E correlator \in Correlators :
           corr = Pending("fold_correlator", [correlator |-> correlator])

FoldCorrelator ==
    /\ corr.op = "fold_correlator"
    /\ corr.status = "pending"
    /\ corr' = Returned("fold_correlator", corr.args,
                        fold_correlator(corr.args.correlator))
    /\ UNCHANGED <<store, last>>

SpecFold == InitFold /\ [][FoldCorrelator]_vars

---------------------------------------------------------------------------
(* filter_correlators.  A key is <<label, masses, momentum, source_type,  *)
(* sink_type>>; a mass is a whole number of 1e-9, so that round(mass, 8)  *)
(* rounds it to a multiple of ten.  An optional argument is None or       *)
(* Supplied(value).                                                       *)

Supplied(value) == <<value>>

\* round(mass, 8) of a mass >= 0: halves are rounded away from zero
round8(mass) == ((mass + 5) \div 10) * 10

\* tuple([round(mass, 8) for mass in masses])
rounded(masses) == [k \in DOMAIN masses |-> round8(masses[k])]

\* the loop over filter_params, from the parameter i on
RECURSIVE filtered(_, _, _)
filtered(correlator_attributes, filter_params, i) ==
    IF i > Len(filter_params) THEN correlator_attributes
    ELSE filtered(IF filter_params[i] # None
                  THEN {attrib \in correlator_attributes :
                            attrib[i] = filter_params[i][1]}
                  ELSE correlator_attributes,
                  filter_params, i + 1)

\* what is returned: the correlator itself, or a dict of correlators
Array(correlator) == [returned |-> "array", array |-> correlator]
Dict(correlators) == [returned |-> "dict", dict |-> correlators]

\* the variant that returns a dict whatever the number of matches is
filter_correlators_dict(data, label, masses, momentum, source_type, sink_type) ==
    LET filter_params ==
            <<label,
              IF masses # None THEN Supplied(rounded(masses[1])) ELSE None,
              momentum, source_type, sink_type>>
        correlator_attributes == filtered(DOMAIN data, filter_params, 1)
    IN  Ok(Dict([attrib \in correlator_attributes |-> data[attrib]]))

filter_correlators(data, label, masses, momentum, source_type, sink_type) ==
    LET filter_params ==
            <<label,
              IF masses # None THEN Supplied(rounded(masses[1])) ELSE None,
              momentum, source_type, sink_type>>
        correlator_attributes == filtered(DOMAIN data, filter_params, 1)
    IN  IF Cardinality(correlator_attributes) = 1
        THEN Ok(Array(data[CHOOSE attrib \in correlator_attributes : TRUE]))
        ELSE Ok(Dict([attrib \in correlator_attributes |-> data[attrib]]))

\* the keys of the dictionaries passed in: 0.1 and 0.100000004 are the masses
KeyPool ==
    {<<"pion", <<100000000>>, <<0, 0, 0>>, "point", "point">>,
     <<"rho", <<100000000>>, <<0, 0, 0>>, "point", "point">>,
     <<"pion", <<100000004>>, <<0, 0, 0>>, "point", "point">>,
     <<"pion", <<100000000>>, <<1, 0, 0>>, "point", "point">>,
     <<"pion", <<100000000>>, <<0, 0, 0>>, "wall", "point">>,
     <<"pion", <<100000000>>, <<0, 0, 0>>, "point", "wall">>}

\* the correlator stored under a key
CorrelatorOf(attrib) == [correlator |-> attrib]

Dictionaries ==
    {[attrib \in keys |-> CorrelatorOf(attrib)] :
        keys \in {ks \in SUBSET KeyPool : Cardinality(ks) <= MaxKeys}}

Optional(values) == {None} \cup {Supplied(value) : value \in values}

FilterArgs ==
    [data : Dictionaries,
     label : Optional({"pion", "rho"}),
     masses : Optional({<<100000000>>, <<100000004>>}),
     momentum : Optional({<<0, 0, 0>>, <<1, 0, 0>>}),
     source_type : Optional({"point", "wall"}),
     sink_type : Optional({"point", "wall"})]

InitFilter ==
    /\ InitStore
    /\ \E args \in FilterArgs : corr = Pending("filter_correlators", args)

FilterCorrelators ==
    /\ corr.op = "filter_correlators"
    /\ corr.status = "pending"
    /\ corr' = Returned("filter_correlators", corr.args,
                        filter_correlators(corr.args.data, corr.args.label,
                                           corr.args.masses, corr.args.momentum,
                                           corr.args.source_type,
                                           corr.args.sink_type))
    /\ UNCHANGED <<store, last>>

SpecFilter == InitFilter /\ [][FilterCorrelators]_vars

---------------------------------------------------------------------------
(* The arithmetic of DataSet on measurements of any shape: a measurement  *)
(* is a number, a list, a tuple or a dict of measurements, or a value of  *)
(* another type, here a string.  The values of a dict are a.values(), in  *)
(* the order of a.keys().                                                 *)

Float(val) == [type |-> "float", val |-> val]
Str == [type |-> "str"]
List(items) == [type |-> "list", items |-> items]
Tuple(items) == [type |-> "tuple", items |-> items]
DictOf(keys, values) == [type |-> "dict", keys |-> keys, items |-> values]
NoneType == [type |-> "NoneType"]

\* np.sqrt(a) of a number
Root(val) == [type |-> "float", sqrt |-> val]

Shorter(m, n) == IF m < n THEN m ELSE n

\* dict(zip(keys, values))
zipped(keys, values) ==
    LET n == Shorter(Len(keys), Len(values))
    IN  DictOf(SubSeq(keys, 1, n), SubSeq(values, 1, n))

\* a list comprehension over calls: the first exception raised leaves it
comprehension(results) ==
    IF \E k \in DOMAIN results : results[k].status # "ok"
    THEN LET first == CHOOSE k \in DOMAIN results :
                          /\ results[k].status # "ok"
                          /\ \A j \in 1 .. k - 1 : results[j].status = "ok"
         IN  Raise(results[first].status)
    ELSE Ok(List([k \in DOMAIN results |-> results[k].value]))

\* if type(a) == tuple: a = list(a)
as_list(a) == IF a.type = "tuple" THEN List(a.items) ELSE a

\* a + b, a - b, a * b of two numbers
combined(op, a, b) ==
    CASE op = "_add_measurements" -> Float(RatAdd(a.val, b.val))
      [] op = "_sub_measurements" -> Float(RatSub(a.val, b.val))
      [] op = "_mul_measurements" -> Float(RatMul(a.val, b.val))

\* _add_measurements, _sub_measurements and _mul_measurements: one body, with
\* the operator of the name
RECURSIVE elementwise(_, _, _)
elementwise(op, a0, b0) ==
    LET a == as_list(a0)
        b == as_list(b0)
    IN  IF a.type = "list" /\ b.type = "list"
        THEN comprehension(
                 [k \in 1 .. Shorter(Len(a.items), Len(b.items)) |->
                     elementwise(op, a.items[k], b.items[k])])
        ELSE IF a.type = "dict" /\ b.type = "dict"
        THEN elementwise(op, a, List(b.items))
        ELSE IF a.type = "dict" /\ b.type = "list"
        THEN LET values == elementwise(op, List(a.items), b)
             IN  IF values.status = "ok"
                 THEN Ok(zipped(a.keys, values.value.items))
                 ELSE values
        ELSE IF a.type = "list" /\ b.type = "dict"
        THEN elementwise(op, b, a)
        ELSE IF a.type = "float" /\ b.type = "float"
        THEN Ok(combined(op, a, b))
        ELSE Raise("TypeError")

_add_measurements(a, b) == elementwise("_add_measurements", a, b)
_sub_measurements(a, b) == elementwise("_sub_measurements", a, b)
_mul_measurements(a, b) == elementwise("_mul_measurements", a, b)

\* the body of _div_measurements after the test of the divisor; of a value
\* that is no list, tuple, dict or number no branch is taken, and the
\* function returns None
RECURSIVE divided(_, _)
divided(a, div) ==
    IF a.type = "list" \/ a.type = "tuple"
    THEN comprehension([k \in DOMAIN a.items |-> divided(a.items[k], div)])
    ELSE IF a.type = "dict"
    THEN LET values == divided(List(a.items), div)
         IN  IF values.status = "ok"
             THEN Ok(zipped(a.keys, values.value.items))
             ELSE values
    ELSE IF a.type = "float"
    THEN Ok(Float(RatDiv(a.val, div.val)))
    ELSE Ok(NoneType)

_div_measurements(a, div) ==
    IF div.type # "float" THEN Raise("TypeError") ELSE divided(a, div)

\* _sqrt_measurements: as _div_measurements, it returns None of a value that
\* is no list, tuple, dict or number
RECURSIVE _sqrt_measurements(_)
_sqrt_measurements(a) ==
    IF a.type = "list" \/ a.type = "tuple"
    THEN comprehension([k \in DOMAIN a.items |-> _sqrt_measurements(a.items[k])])
    ELSE IF a.type = "dict"
    THEN LET values == _sqrt_measurements(List(a.items))
         IN  IF values.status = "ok"
             THEN Ok(zipped(a.keys, values.value.items))
             ELSE values
    ELSE IF a.type = "float"
    THEN Ok(Root(a.val))
    ELSE Ok(NoneType)

\* the measurements passed in: numbers and strings, lists, tuples and dicts
\* of up to MaxItems of them, and lists of one of these
Leaves == {Float(Rat(4, 1)), Float(Rat(1, 1)), Str}
ItemLists == UNION {[1 .. n -> Leaves] : n \in 0 .. MaxItems}
Flat ==
    Leaves \cup {List(items) : items \in ItemLists}
        \cup {Tuple(items) : items \in ItemLists}
        \cup {DictOf([k \in DOMAIN items |-> k], items) : items \in ItemLists}
Measurements == Flat \cup {List(<<a>>) : a \in Flat \ Leaves}
Divisors == {Float(Rat(2, 1)), Str}

\* the calls of one of the five static methods
MeasurementCalls(op) ==
    IF op = "_div_measurements"
    THEN {Pending(op, <<a, div>>) : a \in Measurements, div \in Divisors}
    ELSE IF op = "_sqrt_measurements"
    THEN {Pending(op, <<a>>) : a \in Measurements}
    ELSE {Pending(op, <<a, b>>) : a \in Measurements, b \in Measurements}

InitMeasure ==
    /\ num_data = 0
    /\ archive = [x \in {TypeMember} |-> [pickle |-> datatype]]
    /\ jackknifes_cached = FALSE
    /\ cache = <<>>
    /\ corr = Call("import", <<>>, "ok", None)
    /\ \E op \in {"_add_measurements", "_sub_measurements",
                  "_mul_measurements", "_div_measurements",
                  "_sqrt_measurements"} : last \in MeasurementCalls(op)

\* the call of last returns
Measure ==
    /\ last.status = "pending"
    /\ last' = Returned(last.op, last.args,
                        CASE last.op = "_add_measurements" ->
                                 _add_measurements(last.args[1], last.args[2])
                          [] last.op = "_sub_measurements" ->
                                 _sub_measurements(last.args[1], last.args[2])
                          [] last.op = "_mul_measurements" ->
                                 _mul_measurements(last.args[1], last.args[2])
                          [] last.op = "_div_measurements" ->
                                 _div_measurements(last.args[1], last.args[2])
                          [] last.op = "_sqrt_measurements" ->
                                 _sqrt_measurements(last.args[1]))
    /\ UNCHANGED <<store, corr>>

SpecMeasure == InitMeasure /\ [][Measure]_vars

---------------------------------------------------------------------------
(* compute_effmass.  Whether spop.newton converges at a time slice is the  *)
(* library's matter: converges[t + 1] says whether it does at slice t, and *)
(* when it does not it raises RuntimeError.  The numbers it and np.log     *)
(* return are kept as what they are the root and the logarithm of.         *)

\* np.roll(correlator, -1): entry t is correlator[(t + 1) % T]
roll(correlator) ==
    [j \in DOMAIN correlator |-> correlator[(j % Len(correlator)) + 1]]

\* correlator / np.roll(correlator, -1)
ratios(correlator) ==
    [j \in DOMAIN correlator |->
        [num |-> correlator[j], den |-> roll(correlator)[j]]]

\* spop.newton(function, guess_mass, maxiter = 1000) at the slice t
newton(solve_function, t, ratio, converged) ==
    IF converged
    THEN Ok([root_of |-> solve_function, t |-> t, ratio |-> ratio])
    ELSE Raise("RuntimeError")

\* np.log(np.abs(correlator / np.roll(correlator, -1)))
log_abs(quotients) == [j \in DOMAIN quotients |-> [log_abs |-> quotients[j]]]

\* the variant that takes the logarithm at the slices where spop.newton fails
\* and keeps the roots of the others
compute_effmass_by_slice(correlator, converges) ==
    IF Len(correlator) < 2 THEN Raise("IndexError")
    ELSE LET T == Len(correlator)
             solve_function ==
                 IF sign(correlator[2]) = sign(correlator[T]) THEN "cosh"
                 ELSE "sinh"
         IN  Ok([j \in 1 .. T |->
                    IF converges[j]
                    THEN newton(solve_function, j - 1, ratios(correlator)[j],
                                TRUE).value
                    ELSE log_abs(ratios(correlator))[j]])

\* for t in range(T): effmass[t] = spop.newton(...), from the slice t on
RECURSIVE effmass_loop(_, _, _, _, _)
effmass_loop(effmass, solve_function, quotients, converges, t) ==
    IF t = Len(effmass) THEN Ok(effmass)
    ELSE LET root == newton(solve_function, t, quotients[t + 1],
                            converges[t + 1])
         IN  IF root.status # "ok" THEN root
             ELSE effmass_loop([effmass EXCEPT ![t + 1] = root.value],
                               solve_function, quotients, converges, t + 1)

\* correlator[1] of a correlator of one slice raises IndexError, which the
\* except clause does not catch
compute_effmass(correlator, converges) ==
    IF Len(correlator) < 2 THEN Raise("IndexError")
    ELSE LET T == Len(correlator)
             solve_function ==
                 IF sign(correlator[2]) = sign(correlator[T]) THEN "cosh"
                 ELSE "sinh"
             tried == effmass_loop([j \in 1 .. T |-> Zero], solve_function,
                                   ratios(correlator), converges, 0)
         IN  IF tried.status = "RuntimeError"
             THEN Ok(log_abs(ratios(correlator)))
             ELSE tried

EffmassArgs(T) ==
    [correlator : [1 .. T -> SliceVals], converges : [1 .. T -> BOOLEAN]]

InitEffmass ==
    /\ InitStore
    /\ \E T \in 1 .. MaxT :
           \E args \in EffmassArgs(T) : corr = Pending("compute_effmass", args)

ComputeEffmass ==
    /\ corr.op = "compute_effmass"
    /\ corr.status = "pending"
    /\ corr' = Returned("compute_effmass", corr.args,
                        compute_effmass(corr.args.correlator,
                                        corr.args.converges))
    /\ UNCHANGED <<store, last>>

SpecEffmass == InitEffmass /\ [][ComputeEffmass]_vars

---------------------------------------------------------------------------
(* Properties of the data set under Spec *)

\* C1: add_datum(d) of a datum of the data type, on a store of n data, leaves
\* n + 1 data, and get_datum(n) then returns a value equal to d.
AddDatumAppends ==
    [][(last'.op = "add_datum" /\ last'.status = "ok")
           => /\ last'.args.datum.type = datatype
              /\ num_data' = num_data + 1
              /\ get_datum(archive', num_data) = Ok(last'.args.datum)]_vars

\* a store of MaxData data whose last datum was added over a member that
\* set_datum had left under the same name with another value
AddDatumAppended ==
    /\ last.op = "add_datum"
    /\ last.status = "ok"
    /\ num_data = MaxData
    /\ get_datum(archive, num_data - 1) = Ok(last.args.datum)
    /\ get_datum(archive, num_data - 2).value # last.args.datum

GetDatumPastCountFails ==
    (last.op \in {"get_datum", "__getitem__"} /\ last.args.index >= num_data)
        => last.status = "KeyError"

---------------------------------------------------------------------------
(* What the properties of the statistics compare with: the values the     *)
(* store holds, get_datum(i) for i < n, each taken once                   *)

\* f[0] + ... + f[k - 1]
RECURSIVE RatSum(_, _)
RatSum(f, k) == IF k = 0 THEN Zero ELSE RatAdd(RatSum(f, k - 1), f[k - 1])

StoredValues(arch, n) == [i \in 0 .. n - 1 |-> get_datum(arch, i).value.val]

MeanOf(f, n) == RatDivInt(RatSum(f, n), n)

VarianceOf(f, n) ==
    LET mean == MeanOf(f, n)
    IN  MeanOf([i \in 0 .. n - 1 |->
                   RatMul(RatSub(f[i], mean), RatSub(f[i], mean))], n)

\* the averages of the bins (of full bins, as _get_bin computes them), and
\* the sum of all of them but the bin that holds the datum index, over
\* num_bins - 1
BinAverages(arch, n, binsize) ==
    [b \in 0 .. NumBins(n, binsize) - 1 |->
        _get_bin(arch, n, binsize, b).value.val]

WithoutBinOf(arch, n, index, binsize) ==
    LET bins == BinAverages(arch, n, binsize)
    IN  RatDivInt(RatSub(RatSum(bins, NumBins(n, binsize)),
                         bins[index \div binsize]),
                  NumBins(n, binsize) - 1)

\* the average of jackknife_datum(i, 1) over i < n
JackknifeAverage(arch, n) ==
    MeanOf([i \in 0 .. n - 1 |-> jackknife_datum(arch, n, i, 1).value.val], n)

\* C3: on a store of n >= 1 measurements statistics() returns the mean
\* (sum of v_i) / n and a deviation whose square is
\* (sum of (v_i - mean)^2) / n: each measurement counts once in each sum.
StatisticsCountsEachOnce ==
    (last.op = "statistics" /\ num_data >= 1)
        => /\ last.status = "ok"
           /\ last.value.mean.val = MeanOf(StoredValues(archive, num_data), num_data)
           /\ last.value.std2.val
                  = VarianceOf(StoredValues(archive, num_data), num_data)

\* C5: after apply_function(func, args) on a store of data d_0 .. d_{n-1},
\* get_datum(i) returns func(d_i, *args) for every i < n.
ApplyFunctionOverwrites ==
    [][(last'.op = "apply_function" /\ last'.status = "ok")
           => \A i \in 0 .. num_data - 1 :
                  get_datum(archive', i)
                      = Ok(apply_to(last'.args.func, get_datum(archive, i).value))]_vars

\* C6: for binsize >= 1 and index < the stored count, jackknife_datum(index,
\* binsize) returns the sum of the averages of all bins, minus the average
\* of the bin index \div binsize that holds the datum index, over
\* num_bins - 1.  Stated for two bins or more, all of them full, where the
\* division and the average of a bin are not in question.
JackknifeDatumLeavesOutBinOfIndex ==
    (/\ last.op = "jackknife_datum"
     /\ last.args.binsize >= 1
     /\ last.args.index < num_data
     /\ num_data % last.args.binsize = 0
     /\ NumBins(num_data, last.args.binsize) >= 2)
        => /\ last.status = "ok"
           /\ last.value.val = WithoutBinOf(archive, num_data, last.args.index,
                                            last.args.binsize)

\* C7: on a store of n >= 2 measurements the average of jackknife_datum(i, 1)
\* over i < n equals the mean statistics() returns.
JackknifeAverageIsStatisticsMean ==
    (last.op = "statistics" /\ num_data >= 2)
        => /\ last.status = "ok"
           /\ last.value.mean.val = JackknifeAverage(archive, num_data)

---------------------------------------------------------------------------
(* Properties of the validating calls under SpecResample *)

\* the calls the validation rejects, on a store of n data
Rejected(call, n) ==
    \/ call.op \in {"add_datum", "set_datum"} /\ call.args.datum.type # datatype
    \/ call.op = "set_datum" /\ call.args.index >= n
    \/ /\ call.op \in {"bootstrap", "jackknife_datum",
                       "generate_jackknife_cache", "jackknife"}
       /\ call.args.binsize < 1
    \/ call.op = "jackknife_datum" /\ call.args.index >= n

\* C2: a call the validation rejects (add_datum or set_datum with a datum of
\* another type, set_datum with index >= the stored count, bootstrap,
\* jackknife_datum, generate_jackknife_cache or jackknife with binsize < 1,
\* jackknife_datum with index >= the stored count) fails, and leaves the
\* stored count, the archive members, the cache flag and the cache files
\* as they were.
RejectedCallChangesNothing ==
    [][Rejected(last', num_data)
           => /\ last'.status \in {"TypeError", "ValueError"}
              /\ UNCHANGED store]_vars

\* a call was rejected on a store that holds data and a written cache
RejectedWithCache ==
    /\ Rejected(last, num_data)
    /\ last.op = "set_datum"
    /\ last.args.datum.type = datatype
    /\ last.status = "TypeError"
    /\ num_data > 0
    /\ jackknifes_cached
    /\ DOMAIN cache # {}

---------------------------------------------------------------------------
(* Properties of bootstrap under SpecBootstrap *)

\* bootstrap(func, num_bootstraps = 1, binsize = n) was called on n >= 1 data
OneBinBootstrap ==
    /\ last.op = "bootstrap"
    /\ num_data >= 1
    /\ last.args.num_bootstraps = 1
    /\ last.args.binsize = num_data

\* func of the mean of the n measurements
OfEnsembleMean ==
    measure_with(last.args.func,
                 Obj(datatype, MeanOf(StoredValues(archive, num_data), num_data)))

\* C8, as amended: on a store of n >= 1 data, bootstrap(func, num_bootstraps
\* = 1, binsize = n) with a func that returns a number draws the one bin 0
\* whatever the draw, and the mean it returns is func of the mean of the n
\* measurements.
OneBinBootstrapMean ==
    (OneBinBootstrap /\ OfEnsembleMean # None)
        => /\ last.status = "ok"
           /\ last.value.mean = OfEnsembleMean

\* the call was made on two data of different values and returned
OneBinBootstrapReturned ==
    /\ OneBinBootstrap
    /\ num_data = 2
    /\ get_datum(archive, 0) # get_datum(archive, 1)
    /\ last.status = "ok"
    /\ last.value.mean = OfEnsembleMean

\* C8, as stated: the same for any func.
OneBinBootstrapMeanAnyFunc ==
    OneBinBootstrap
        => /\ last.status = "ok"
           /\ last.value.mean = OfEnsembleMean

---------------------------------------------------------------------------
(* Properties of the two-point library under SpecCorr *)

\* C10: compute_meson_corr with average_momenta = False, for a momentum p
\* and propagators of spatial extent L, succeeds and returns the
\* momentum-space correlator at (p[0] mod L, p[1] mod L, p[2] mod L).
UnaveragedSelectsMomentum ==
    (corr.op = "compute_meson_corr" /\ ~corr.args.average_momenta)
        => /\ corr.status = "ok"
           /\ corr.value = MomCorrelator(
                  <<corr.args.momenta[1] % corr.args.L,
                    corr.args.momenta[2] % corr.args.L,
                    corr.args.momenta[3] % corr.args.L>>)

\* the six permutations and sign flips of (1, 0, 0), reduced modulo L
SixOfUnit(L) ==
    {<<x % L, 0, 0>> : x \in {-1, 1}} \cup {<<0, x % L, 0>> : x \in {-1, 1}}
        \cup {<<0, 0, x % L>> : x \in {-1, 1}}

\* the momenta whose correlators the result is the mean of, and how often
\* the momentum q is among them
AveragedMomenta(value) == {value.mean[k].at : k \in DOMAIN value.mean}

TimesAveraged(value, q) ==
    Cardinality({k \in DOMAIN value.mean : value.mean[k].at = q})

\* C11: for momenta = (1, 0, 0), average_momenta = True and a spatial extent
\* L >= 2, even or odd, the momenta compute_meson_corr averages over are the
\* six permutations and sign flips of (1, 0, 0) reduced modulo L, each with
\* the same weight: the result is the mean of the correlators at those.
AveragesSixOfUnit ==
    (/\ corr.op = "compute_meson_corr"
     /\ corr.args.average_momenta
     /\ corr.args.momenta = <<1, 0, 0>>
     /\ corr.args.L >= 2)
        => /\ corr.status = "ok"
           /\ AveragedMomenta(corr.value) = SixOfUnit(corr.args.L)
           /\ \A p, q \in SixOfUnit(corr.args.L) :
                  TimesAveraged(corr.value, p) = TimesAveraged(corr.value, q)


\* the 16 named interpolators, by their place in the list of the names, and
\* the label "{source}_{sink}" of a pair as the pair
Interpolators == 1 .. 16
Labels == Interpolators \X Interpolators

\* C12: compute_meson_corr256 returns a mapping with an entry for each of
\* the 256 ordered (source, sink) pairs of the 16 named interpolators.
MesonCorr256HasAllPairs ==
    corr.op = "compute_meson_corr256"
        => /\ corr.status = "ok"
           /\ DOMAIN corr.value = Labels

\* the momentum-space correlator of the propagators at a momentum
MomSeries(prop, m) ==
    IF prop = "flat" THEN <<Rat(1, 1), Rat(1, 1), Rat(1, 1), Rat(1, 1)>>
    ELSE <<Rat(8, 1), Rat(4, 1), Rat(2, 1), Rat(3, 1)>>

\* the correlator a returned value stands for
SeriesOf(prop, value) ==
    IF "at" \in DOMAIN value THEN MomSeries(prop, value.at)
    ELSE LET n == Len(value.mean)
         IN  [t \in 1 .. 4 |->
                 MeanOf([k \in 0 .. n - 1 |->
                            MomSeries(prop, value.mean[k + 1].at)[t]], n)]

\* C13: compute_meson_corr with fold = True returns fold_correlator of the
\* correlator returned for the same arguments with fold = False.
FoldTrueFolds ==
    LET unfolded == compute_meson_corr(corr.args.L, corr.args.momenta,
                                       corr.args.average_momenta, FALSE)
    IN  (/\ corr.op = "compute_meson_corr"
         /\ corr.args.fold
         /\ unfolded.status = "ok")
            => /\ corr.status = "ok"
               /\ SeriesOf(corr.args.prop, corr.value)
                      = fold_correlator(SeriesOf(corr.args.prop,
                                                 unfolded.value)).value

\* the entry t of the fold of a correlator c of T slices, as the claim
\* states it
Folded(c, t) ==
    LET T == Len(c)
    IN  IF sign(c[2]) = sign(c[T])
        THEN RatDivInt(RatAdd(c[t + 1], c[T - t + 1]), 2)
        ELSE RatDivInt(RatSub(c[t + 1], c[T - t + 1]), 2)

\* C14: fold_correlator of a correlator c of T >= 2 slices returns T slices,
\* out[0] = c[0] and, for 1 <= t <= T - 1, out[t] = (c[t] + c[T - t]) / 2
\* when c[1] and c[T - 1] have the same sign, (c[t] - c[T - t]) / 2 otherwise.
FoldCorrelatorFolds ==
    (/\ corr.op = "fold_correlator"
     /\ corr.status # "pending"
     /\ Len(corr.args.correlator) >= 2)
        => /\ corr.status = "ok"
           /\ Len(corr.value) = Len(corr.args.correlator)
           /\ corr.value[1] = corr.args.correlator[1]
           /\ \A t \in 1 .. Len(corr.args.correlator) - 1 :
                  corr.value[t + 1] = Folded(corr.args.correlator, t)

\* a correlator of four slices with signs that differ has been folded to
\* half differences
FoldedAntisymmetric ==
    /\ corr.op = "fold_correlator"
    /\ corr.status = "ok"
    /\ corr.args.correlator = <<Rat(2, 1), Rat(1, 1), Rat(2, 1), Rat(-1, 1)>>
    /\ corr.value = <<Rat(2, 1), Rat(1, 1), Rat(0, 1), Rat(-1, 1)>>

\* the criteria of a call, in the order of the key, as they were supplied
Criteria(args) ==
    <<args.label, args.masses, args.momentum, args.source_type, args.sink_type>>

\* the criteria, the masses rounded to 8 decimal digits
RoundedCriteria(args) ==
    [Criteria(args) EXCEPT
        ![2] = IF args.masses # None THEN Supplied(rounded(args.masses[1]))
               ELSE None]

\* the keys of data that equal every supplied criterion
Matching(data, criteria) ==
    {attrib \in DOMAIN data :
        \A i \in 1 .. 5 : criteria[i] # None => attrib[i] = criteria[i][1]}

\* the one match returned directly, or a mapping of exactly the matches
ReturnsMatches(data, value, matches) ==
    IF Cardinality(matches) = 1
    THEN /\ value.returned = "array"
         /\ \A attrib \in matches : value.array = data[attrib]
    ELSE /\ value.returned = "dict"
         /\ DOMAIN value.dict = matches
         /\ \A attrib \in matches : value.dict[attrib] = data[attrib]

\* C15, as stated: filter_correlators selects exactly the entries whose key
\* equals every supplied criterion; one match is returned directly, anything
\* else as a mapping of exactly the matches.
FilterSelectsEqualKeys ==
    (corr.op = "filter_correlators" /\ corr.status # "pending")
        => /\ corr.status = "ok"
           /\ ReturnsMatches(corr.args.data, corr.value,
                             Matching(corr.args.data, Criteria(corr.args)))

\* C15, amended: filter_correlators selects exactly the entries whose key
\* equals every supplied criterion, the masses supplied being rounded to 8
\* decimal digits before they are compared; one match is returned directly,
\* anything else as a mapping of exactly the matches.
FilterSelectsRoundedKeys ==
    (corr.op = "filter_correlators" /\ corr.status # "pending")
        => /\ corr.status = "ok"
           /\ ReturnsMatches(corr.args.data, corr.value,
                             Matching(corr.args.data,
                                      RoundedCriteria(corr.args)))

\* of two entries, the one whose masses are the rounded masses supplied has
\* been returned directly
FilteredOneByRoundedMasses ==
    /\ corr.op = "filter_correlators"
    /\ corr.status = "ok"
    /\ Cardinality(DOMAIN corr.args.data) = 2
    /\ corr.args.masses # None
    /\ RoundedCriteria(corr.args) # Criteria(corr.args)
    /\ corr.value.returned = "array"

IsContainer(a) == a.type \in {"list", "tuple", "dict"}

\* the recursion over one measurement reaches a leaf that is no number
RECURSIVE ReachesBadLeaf(_)
ReachesBadLeaf(a) ==
    IF IsContainer(a) THEN \E k \in DOMAIN a.items : ReachesBadLeaf(a.items[k])
    ELSE a.type # "float"

\* the recursion over two measurements, item by item, reaches one
RECURSIVE ReachBadLeaf(_, _)
ReachBadLeaf(a, b) ==
    IF IsContainer(a) /\ IsContainer(b)
    THEN \E k \in 1 .. Shorter(Len(a.items), Len(b.items)) :
             ReachBadLeaf(a.items[k], b.items[k])
    ELSE (~IsContainer(a) /\ a.type # "float")
             \/ (~IsContainer(b) /\ b.type # "float")

\* C16: each of _add_measurements, _sub_measurements, _mul_measurements,
\* _div_measurements and _sqrt_measurements raises a type error whenever the
\* recursion reaches a leaf that is no number; none returns a value then.
BadLeafRaisesTypeError ==
    (/\ last.status # "pending"
     /\ \/ /\ last.op \in {"_add_measurements", "_sub_measurements",
                           "_mul_measurements"}
           /\ ReachBadLeaf(last.args[1], last.args[2])
        \/ /\ last.op \in {"_div_measurements", "_sqrt_measurements"}
           /\ ReachesBadLeaf(last.args[1]))
        => last.status = "TypeError"

\* C(t) / C(t + 1 mod T) of a correlator of T slices
NextRatio(c, t) == [num |-> c[t + 1], den |-> c[((t + 1) % Len(c)) + 1]]

\* the Newton root of the slice t
NewtonRoot(c, t) ==
    [root_of |-> IF sign(c[2]) = sign(c[Len(c)]) THEN "cosh" ELSE "sinh",
     t |-> t, ratio |-> NextRatio(c, t)]

\* the estimates of all slices are Newton roots when the root finder fails
\* at no slice, and log |C(t) / C(t + 1 mod T)| of all slices when it fails
\* at one
OneEstimator(c, converges, value) ==
    /\ Len(value) = Len(c)
    /\ IF \A j \in DOMAIN converges : converges[j]
       THEN \A t \in 0 .. Len(c) - 1 : value[t + 1] = NewtonRoot(c, t)
       ELSE \A t \in 0 .. Len(c) - 1 :
                value[t + 1] = [log_abs |-> NextRatio(c, t)]

\* C17, as stated: compute_effmass returns an array of length T that holds the
\* Newton root of every slice or, when the root finder fails at a slice, log
\* |C(t) / C(t + 1 mod T)| of every slice; it never fails.
EffmassOneEstimator ==
    (corr.op = "compute_effmass" /\ corr.status # "pending")
        => /\ corr.status = "ok"
           /\ OneEstimator(corr.args.correlator, corr.args.converges,
                           corr.value)

\* C17, amended: of a correlator of T >= 2 slices compute_effmass returns an
\* array of length T that holds the Newton root of every slice or, when the
\* root finder fails at a slice, log |C(t) / C(t + 1 mod T)| of every slice;
\* it never fails because the root finder does not converge.
EffmassOneEstimatorOfTwoSlices ==
    (/\ corr.op = "compute_effmass"
     /\ corr.status # "pending"
     /\ Len(corr.args.correlator) >= 2)
        => /\ corr.status = "ok"
           /\ OneEstimator(corr.args.correlator, corr.args.converges,
                           corr.value)

\* the root finder converged at the first slices and failed at a later one,
\* and the logarithm was returned for all of them
EffmassFellBackLate ==
    /\ corr.op = "compute_effmass"
    /\ corr.status = "ok"
    /\ Len(corr.args.correlator) = 3
    /\ corr.args.converges = <<TRUE, TRUE, FALSE>>
    /\ \A j \in 1 .. 3 : "log_abs" \in DOMAIN corr.value[j]

\* C18: of a store built by add_datum and set_datum calls, load returns a
\* store with the data type and the stored count of the store that wrote
\* the archive.
LoadInfersCount ==
    last.op = "load"
        => /\ last.status = "ok"
           /\ last.value.datatype = datatype
           /\ last.value.num_data = num_data

\* the cache files of a bin size that a store of n data reads
CacheFilesOf(n, binsize) ==
    {jackknife_filename(binsize, i) : i \in 0 .. NumBins(n, binsize) - 1}

\* C19: once a jackknife cache has been generated on the store,
\* jackknife(func, binsize, use_cache = True) generates no cache for its bin
\* size: it leaves the cache files as they are and reads the files named for
\* its bin size, which fails when one of them is not there.
CachedJackknifeGeneratesNothing ==
    [][(/\ jackknifes_cached
        /\ last'.op = "jackknife"
        /\ last'.args.use_cache
        /\ last'.args.binsize >= 1)
           => /\ cache' = cache
              /\ jackknifes_cached'
              /\ IF CacheFilesOf(num_data, last'.args.binsize) \subseteq DOMAIN cache
                 THEN last' = Returned("jackknife", last'.args,
                                  jackknife_result(
                                      cached_measurements(
                                          Ok(<<>>), cache, last'.args.func,
                                          last'.args.binsize, 0,
                                          NumBins(num_data, last'.args.binsize)),
                                      cache, TRUE).result)
                 ELSE last'.status = "IOError"]_vars

\* the cache holds the files of bin size 1 and none of bin size 2, and
\* jackknife with the cache and bin size 2 has failed on the missing file
CachedJackknifeOfOtherBinsize ==
    /\ jackknifes_cached
    /\ last.op = "jackknife"
    /\ last.args.use_cache
    /\ last.args.binsize = 2
    /\ last.status = "IOError"
    /\ num_data = 2
    /\ CacheFilesOf(num_data, 1) \subseteq DOMAIN cache
    /\ jackknife_filename(2, 0) \notin DOMAIN cache

\* the leave-one-out averages of the store of an ensemble, as files under the
\* names of the bin size
PeerAverages(ensemble, binsize) ==
    LET arch == peer_archive(ensemble, Len(ensemble))
        n == Len(ensemble)
    IN  [name \in CacheFilesOf(n, binsize) |->
            save(leave_out(bin_sum(arch, n, binsize).value, arch, n, binsize,
                           name.binnum).value)]

\* what jackknife returns when func is applied to these averages
OfPeerAverages(call, n, ensemble) ==
    Returned("jackknife", call.args,
             jackknife_result(
                 cached_measurements(Ok(<<>>),
                                     PeerAverages(ensemble, call.args.binsize),
                                     call.args.func, call.args.binsize, 0,
                                     NumBins(n, call.args.binsize)),
                 <<>>, TRUE).result)

\* store A has generated its cache, store B has just generated its cache for
\* a bin size, and A calls jackknife with the cache and that bin size
SharedCacheRead ==
    /\ jackknifes_cached
    /\ last.op = "peer.generate_jackknife_cache"
    /\ last.status = "ok"
    /\ last'.op = "jackknife"
    /\ last'.args.use_cache
    /\ last'.args.binsize = last.args.binsize

\* C20, as stated: after A has generated its cache and B has generated its
\* cache for the bin size b, A.jackknife(func, b, use_cache = True) applies
\* func to B's leave-one-out averages.
SharedCacheReadsPeer ==
    [][SharedCacheRead => last' = OfPeerAverages(last', num_data,
                                                 last.args.ensemble)]_vars

\* C20, amended: the same, when B has at least as many bins of size b as A.
SharedCacheReadsPeerOfAsManyBins ==
    [][(/\ SharedCacheRead
        /\ NumBins(Len(last.args.ensemble), last.args.binsize)
               >= NumBins(num_data, last.args.binsize))
           => last' = OfPeerAverages(last', num_data, last.args.ensemble)]_vars

\* jackknife with the cache has returned a result that is not the one the
\* data of the store give, from cache files that all hold other averages
\* than the store's
JackknifeOfForeignCache ==
    /\ jackknifes_cached
    /\ last.op = "jackknife"
    /\ last.args.use_cache
    /\ last.status = "ok"
    /\ last.value # jackknife(archive, num_data, cache, TRUE, last.args.func,
                              last.args.binsize, FALSE).result.value
    /\ \A i \in 0 .. NumBins(num_data, last.args.binsize) - 1 :
           load(cache[jackknife_filename(last.args.binsize, i)])
               # leave_out(bin_sum(archive, num_data, last.args.binsize).value,
                           archive, num_data, last.args.binsize, i).value

CachedJackknifeIsFresh ==
    LET fresh == jackknife(archive, num_data, cache, jackknifes_cached,
                           last.args.func, last.args.binsize, FALSE).result
    IN  (/\ last.op = "jackknife"
         /\ last.args.use_cache
         /\ fresh.status = "ok")
            => /\ last.status = "ok"
               /\ last.value = fresh.value

\* the arithmetic mean of the data the bin binnum of size binsize contains,
\* on a store of n data
MeanOfBin(arch, n, binsize, binnum) ==
    LET first == binsize * binnum
        stop == IF binsize * (binnum + 1) > n THEN n ELSE binsize * (binnum + 1)
    IN  MeanOf([i \in 0 .. stop - first - 1 |->
                   StoredValues(arch, n)[first + i]], stop - first)

\* C23: for every binsize >= 1 and every bin number below ceil(count /
\* binsize), _get_bin returns the arithmetic mean of the data the bin
\* contains, the short final bin included.
GetBinIsMeanOfBin ==
    \A binsize \in 1 .. MaxBinsize :
        \A binnum \in 0 .. NumBins(num_data, binsize) - 1 :
            _get_bin(archive, num_data, binsize, binnum)
                = Ok(Obj(datatype, MeanOfBin(archive, num_data, binsize, binnum)))

\* two measurements of numbers that pair item by item down to the leaves
RECURSIVE NumbersPaired(_, _)
NumbersPaired(a, b) ==
    IF IsContainer(a) /\ IsContainer(b)
    THEN \A k \in 1 .. Shorter(Len(a.items), Len(b.items)) :
             NumbersPaired(a.items[k], b.items[k])
    ELSE a.type = "float" /\ b.type = "float"

\* the numbers of a measurement, in its nesting and order
RECURSIVE Numbers(_)
Numbers(a) ==
    IF IsContainer(a) THEN [k \in DOMAIN a.items |-> Numbers(a.items[k])]
    ELSE a.val

\* the elementwise difference a - b of the numbers
RECURSIVE Difference(_, _)
Difference(a, b) ==
    IF IsContainer(a) /\ IsContainer(b)
    THEN [k \in 1 .. Shorter(Len(a.items), Len(b.items)) |->
             Difference(a.items[k], b.items[k])]
    ELSE RatSub(a.val, b.val)

\* C24: for every pairing of sequences and mappings with numeric leaves,
\* _sub_measurements(a, b) returns the elementwise difference a - b.
SubIsDifference ==
    (/\ last.op = "_sub_measurements"
     /\ last.status # "pending"
     /\ NumbersPaired(last.args[1], last.args[2]))
        => /\ last.status = "ok"
           /\ Numbers(last.value) = Difference(last.args[1], last.args[2])

=============================================================================
